---- MODULE Spec2Model ----
(***************************************************************************)
(* Model of the pipeline crate: the YAML path accessor of src/yutil.rs     *)
(* (FromYaml, get_value_by_path, get_typed_value_by_path) and the error    *)
(* type of src/error.rs (Pipeline).                                        *)
(*                                                                         *)
(* Encoding of the data:                                                   *)
(*   - a Rust string is a sequence of one-character strings, so that       *)
(*     str::split is computed and not assumed;                             *)
(*   - a 64-bit number (u64, i64 in two's complement, f64 as its IEEE-754  *)
(*     bit pattern) is four 16-bit limbs, most significant first;          *)
(*   - a serde_yaml Value is a tagged tuple <<variant, payload>>;          *)
(*   - Option and Result are tagged tuples <<"Some", x>>, <<"None">>,      *)
(*     <<"Ok", x>>, <<"Err", e>>.                                          *)
(***************************************************************************)
EXTENDS Integers, Sequences, FiniteSets, TLC

VARIABLES value, path, ty, pc, iter, acc, cf, result,
          pulled, tried, calls, prev,
          err, log, shown

vars == <<value, path, ty, pc, iter, acc, cf, result,
          pulled, tried, calls, prev, err, log, shown>>

resolverVars == <<value, path, ty, pc, iter, acc, cf, result,
                  pulled, tried, calls, prev>>

errorVars == <<err, log, shown>>

(***************************************************************************)
(* Bounds of the model.                                                    *)
(***************************************************************************)
MaxPathLen == 4
MaxCalls == 2
MaxLog == 4

(***************************************************************************)
(* Option / Result / ControlFlow.                                          *)
(***************************************************************************)
None == <<"None">>
Some(x) == <<"Some", x>>
Ok(x) == <<"Ok", x>>
Err(e) == <<"Err", e>>
Continue(x) == <<"Continue", x>>
Break == <<"Break">>
IsSome(o) == o[1] = "Some"
IsOk(r) == r[1] = "Ok"
IsErr(r) == r[1] = "Err"

(***************************************************************************)
(* 64-bit numbers as limbs and as bits.                                    *)
(***************************************************************************)
Limb == 2 ^ 16
HalfLimb == 2 ^ 15

Zeros(n) == [i \in 1..n |-> 0]
LimbBits(n) == [i \in 1..16 |-> (n \div (2 ^ (16 - i))) % 2]
Bits(l) == LimbBits(l[1]) \o LimbBits(l[2]) \o LimbBits(l[3]) \o LimbBits(l[4])

RECURSIVE BitsVal(_)
BitsVal(b) == IF b = <<>> THEN 0 ELSE 2 * BitsVal(SubSeq(b, 1, Len(b) - 1)) + b[Len(b)]
FromBits(b) == [j \in 1..4 |-> BitsVal(SubSeq(b, 16 * (j - 1) + 1, 16 * j))]

\* b + 1 on a bit string, most significant bit first; wraps to zeros.
IncBits(b) ==
    LET zs == {i \in 1..Len(b) : b[i] = 0}
    IN  IF zs = {} THEN Zeros(Len(b))
        ELSE LET k == CHOOSE i \in zs : \A j \in zs : j <= i
             IN  [i \in 1..Len(b) |-> IF i < k THEN b[i] ELSE IF i = k THEN 1 ELSE 0]

\* Two's complement negation of a 64-bit pattern.
NegBits(b) == IncBits([i \in 1..Len(b) |-> 1 - b[i]])

\* The cast (n as f64) for a magnitude given as 64 bits and a sign bit:
\* round to nearest, ties to even, 53 significant bits.
MagToF64(sign, b) ==
    LET ones == {i \in 1..64 : b[i] = 1}
    IN  IF ones = {} THEN FromBits(<<sign>> \o Zeros(63))
        ELSE
          LET lead == CHOOSE i \in ones : \A j \in ones : i <= j
              p    == 64 - lead
              tail == SubSeq(b, lead + 1, 64)
              kept == IF p <= 52 THEN tail \o Zeros(52 - p) ELSE SubSeq(tail, 1, 52)
              rem  == IF p <= 52 THEN <<>> ELSE SubSeq(tail, 53, p)
              up   == /\ rem # <<>>
                      /\ rem[1] = 1
                      /\ \/ \E i \in 2..Len(rem) : rem[i] = 1
                         \/ kept[52] = 1
              mant == IF up THEN IncBits(kept) ELSE kept
              e    == IF up /\ mant = Zeros(52) THEN 1023 + p + 1 ELSE 1023 + p
              ebits == [i \in 1..11 |-> (e \div (2 ^ (11 - i))) % 2]
          IN  FromBits(<<sign>> \o ebits \o mant)

U64ToF64(n) == MagToF64(0, Bits(n))
I64ToF64(n) == IF n[1] >= HalfLimb THEN MagToF64(1, NegBits(Bits(n)))
               ELSE MagToF64(0, Bits(n))

(***************************************************************************)
(* serde_yaml::Value.                                                      *)
(***************************************************************************)
Null == <<"Null">>
Bool(b) == <<"Bool", b>>
PosInt(n) == <<"Number", <<"PosInt", n>>>>
NegInt(n) == <<"Number", <<"NegInt", n>>>>
Float(f) == <<"Number", <<"Float", f>>>>
String(s) == <<"String", s>>
Sequence(s) == <<"Sequence", s>>
Mapping(m) == <<"Mapping", m>>

Variant(v) == v[1]


\* indexmap lookup by key equality (Mapping::get).
MapGet(m, k) == IF k \in DOMAIN m THEN Some(m[k]) ELSE None

\* Number::as_i64 / as_u64 / as_f64.
NumAsI64(n) ==
    CASE n[1] = "PosInt" -> IF n[2][1] < HalfLimb THEN Some(n[2]) ELSE None
      [] n[1] = "NegInt" -> Some(n[2])
      [] OTHER -> None
NumAsU64(n) ==
    CASE n[1] = "PosInt" -> Some(n[2])
      [] OTHER -> None
NumAsF64(n) ==
    CASE n[1] = "PosInt" -> Some(U64ToF64(n[2]))
      [] n[1] = "NegInt" -> Some(I64ToF64(n[2]))
      [] OTHER -> Some(n[2])

\* Value::as_bool, as_i64, as_u64, as_f64, as_str, as_mapping, as_sequence.
AsBool(v) == IF Variant(v) = "Bool" THEN Some(v[2]) ELSE None
AsI64(v) == IF Variant(v) = "Number" THEN NumAsI64(v[2]) ELSE None
AsU64(v) == IF Variant(v) = "Number" THEN NumAsU64(v[2]) ELSE None
\* Mutant: as_f64 that accepts the Float variant alone.
AsF64FloatOnly(v) ==
    IF Variant(v) = "Number" /\ v[2][1] = "Float" THEN Some(v[2][2]) ELSE None
AsF64(v) == IF Variant(v) = "Number" THEN NumAsF64(v[2]) ELSE None
AsStr(v) == IF Variant(v) = "String" THEN Some(v[2]) ELSE None
AsMapping(v) == IF Variant(v) = "Mapping" THEN Some(v[2]) ELSE None
AsSequence(v) == IF Variant(v) = "Sequence" THEN Some(v[2]) ELSE None

\* {:?} of a Value: a structural rendering as text.
DebugFmt(v) == ToString(v)

\* A Rust string (sequence of characters) as text.
RECURSIVE Text(_)
Text(s) == IF s = <<>> THEN "" ELSE Head(s) \o Text(Tail(s))

(***************************************************************************)
(* src/error.rs: Pipeline.                                                 *)
(***************************************************************************)
New(error_string) ==
    [error_string |-> error_string, debug_string |-> None]

NewDebug(error_string, debug_string) ==
    [error_string |-> error_string, debug_string |-> Some(debug_string)]

\* Mutant: print_verbose that logs at debug severity even without a diagnostic.
PrintVerboseOutAlways(e) ==
    <<[level |-> "error", text |-> e.error_string],
      [level |-> "debug", text |-> IF IsSome(e.debug_string) THEN e.debug_string[2] ELSE ""]>>

\* The records print_verbose hands to the log facade, in order.
PrintVerboseOut(e) ==
    <<[level |-> "error", text |-> e.error_string]>>
    \o (IF IsSome(e.debug_string)
        THEN <<[level |-> "debug", text |-> e.debug_string[2]]>>
        ELSE <<>>)

\* Display::fmt.
DisplayFmt(e) == e.error_string

(***************************************************************************)
(* src/yutil.rs: FromYaml.                                                 *)
(***************************************************************************)
RefTypes == {"str", "Mapping", "Sequence"}
CpTypes == {"bool", "i64", "u64", "f64"}
Types == RefTypes \cup CpTypes

\* Mutant: the u64 strategy calls the i64 accessor.
ParseWrongAccessor(T, v) ==
    CASE T = "str" -> AsStr(v)
      [] T = "Mapping" -> AsMapping(v)
      [] T = "Sequence" -> AsSequence(v)
      [] T = "bool" -> AsBool(v)
      [] T = "i64" -> AsI64(v)
      [] T = "u64" -> AsI64(v)
      [] T = "f64" -> AsF64(v)

Parse(T, v) ==
    CASE T = "str" -> AsStr(v)
      [] T = "Mapping" -> AsMapping(v)
      [] T = "Sequence" -> AsSequence(v)
      [] T = "bool" -> AsBool(v)
      [] T = "i64" -> AsI64(v)
      [] T = "u64" -> AsU64(v)
      [] T = "f64" -> AsF64(v)

\* Mutant: no prefix on the copied types.
TypeStrPlain(T) == T
TypeStr(T) == IF T \in RefTypes THEN T ELSE "$" \o T

ParseError(T, v) ==
    NewDebug("Could not parse requested yaml value as " \o TypeStr(T),
             "Input object: " \o DebugFmt(v))

TryFrom(T, v) ==
    LET cv == Parse(T, v)
    IN  IF IsSome(cv) THEN Ok(cv[2]) ELSE Err(ParseError(T, v))

(***************************************************************************)
(* src/yutil.rs: get_value_by_path, get_typed_value_by_path.               *)
(***************************************************************************)
\* The iterator of path.split on the dot, and its next.
\* Mutant: a repeated call goes on with the iterator the last call left behind.
SplitInitStale(p) == IF calls = 0 THEN [rem |-> p, finished |-> FALSE] ELSE iter
SplitInit(p) == [rem |-> p, finished |-> FALSE]

SplitNext(it) ==
    IF it.finished THEN <<None, it>>
    ELSE LET dots == {i \in 1..Len(it.rem) : it.rem[i] = "."}
         IN  IF dots = {}
             THEN <<Some(it.rem), [rem |-> <<>>, finished |-> TRUE]>>
             ELSE LET d == CHOOSE i \in dots : \A j \in dots : i <= j
                  IN  <<Some(SubSeq(it.rem, 1, d - 1)),
                        [rem |-> SubSeq(it.rem, d + 1, Len(it.rem)),
                         finished |-> FALSE]>>

\* Mutant: the closure keeps the accumulator instead of descending.
FoldStepNoDescend(a, key) ==
    IF Variant(a) = "Mapping"
    THEN IF IsSome(MapGet(a[2], String(key))) THEN Continue(a) ELSE Break
    ELSE Break

\* Mutant: the closure takes a numeric segment as an index into a Sequence.
FoldStepSeqIndex(a, key) ==
    IF Variant(a) = "Mapping"
    THEN LET got == MapGet(a[2], String(key))
         IN  IF IsSome(got) THEN Continue(got[2]) ELSE Break
    ELSE IF Variant(a) = "Sequence" /\ key = <<"0">> /\ Len(a[2]) > 0
         THEN Continue(a[2][1])
         ELSE Break

\* The closure given to try_fold.
FoldStep(a, key) ==
    IF Variant(a) = "Mapping"
    THEN LET value_from_str == String(key)
             got == MapGet(a[2], value_from_str)
         IN  IF IsSome(got) THEN Continue(got[2]) ELSE Break
    ELSE Break

\* The grave accent of the message cannot be written in a string of this
\* language; an apostrophe, which no path of the model contains, stands for it.
Grave == "'"

\* Mutant: the diagnostic renders the node the traversal stopped at.
PathErrorAtNode(v, p) ==
    NewDebug("Path " \o Grave \o Text(p) \o Grave
                 \o " was not found within the input object",
             "Input object: " \o DebugFmt(acc))

PathError(v, p) ==
    NewDebug("Path " \o Grave \o Text(p) \o Grave
                 \o " was not found within the input object",
             "Input object: " \o DebugFmt(v))

MatchCf(c, v, p) ==
    IF c[1] = "Continue" THEN Ok(c[2]) ELSE Err(PathError(v, p))

\* Where control goes once get_value_by_path has returned r to a caller of kind t:
\* the plain accessor is done, the typed accessor applies the question-mark operator to r.
AfterResolve(t) == IF t = "Value" THEN "done" ELSE "question"

\* The question-mark operator of get_typed_value_by_path.
AfterQuestion(r) == IF IsErr(r) THEN "done" ELSE "try_from"


(***************************************************************************)
(* Inputs of the model: characters, paths, numbers, values.                *)
(***************************************************************************)
Chars == {"a", "0", "."}
LongPaths == {<<"a", ".", "a", ".", "a">>, <<"a", ".", "0", ".", "a">>}
Paths == UNION {[1..n -> Chars] : n \in 0..MaxPathLen} \cup LongPaths

U0 == <<0, 0, 0, 0>>
U22 == <<0, 0, 0, 22>>
UI64Max == <<HalfLimb - 1, Limb - 1, Limb - 1, Limb - 1>>
UBig == <<HalfLimb, 0, 0, 0>>
U2p53p1 == <<32, 0, 0, 1>>
Neg10 == <<Limb - 1, Limb - 1, Limb - 1, Limb - 10>>
F1p5 == <<16376, 0, 0, 0>>

Keys == {<<>>, <<"a">>, <<"0">>}
Map1(k, x) == Mapping(String(k) :> x)

Scalars == {Null, Bool(TRUE), PosInt(U22), PosInt(UBig), NegInt(Neg10),
            Float(F1p5), String(<<"a">>)}
Leaves == Scalars \cup {Sequence(<<Map1(<<"a">>, Bool(FALSE))>>)}
Inner == {Map1(k, x) : k \in Keys, x \in Leaves}
Outer == {Map1(k, Map1(<<"a">>, x)) : k \in Keys, x \in Leaves}
Extra == {Mapping(<<>>),
          Sequence(<<>>),
          Mapping(PosInt(U0) :> Bool(TRUE)),
          Mapping((String(<<"a">>) :> PosInt(UI64Max)) @@ (String(<<"0">>) :> PosInt(U2p53p1))),
          Mapping((String(<<>>) :> Null) @@ (String(<<"a">>) :> Map1(<<>>, Bool(TRUE)))),
          Map1(<<"a", ".", "a">>, Bool(TRUE)),
          Map1(<<"a">>, Map1(<<"a">>, Map1(<<"a">>, PosInt(U22))))}
Roots == Leaves \cup Inner \cup Outer \cup Extra

Kinds == Types \cup {"Value"}

Msgs == {"m1", "m2"}
Dbgs == {"d1", "d2"}

(***************************************************************************)
(* The state machine of one accessor call, and of repeated calls.          *)
(***************************************************************************)
Init ==
    /\ value = Null
    /\ path = <<>>
    /\ ty = "Value"
    /\ pc = "idle"
    /\ iter = [rem |-> <<>>, finished |-> TRUE]
    /\ acc = Null
    /\ cf = None
    /\ result = None
    /\ pulled = 0
    /\ tried = 0
    /\ calls = 0
    /\ prev = None
    /\ err = None
    /\ log = <<>>
    /\ shown = None

\* Entry of get_value_by_path (directly, or from get_typed_value_by_path):
\* the split iterator is created and try_fold is seeded with the root.
Enter(v, p, t) ==
    /\ value' = v
    /\ path' = p
    /\ ty' = t
    /\ iter' = SplitInit(p)
    /\ acc' = v
    /\ cf' = None
    /\ result' = None
    /\ pulled' = 0
    /\ tried' = 0
    /\ pc' = "fold"

Call ==
    /\ pc = "idle"
    /\ \E v \in Roots, p \in Paths, t \in Kinds : Enter(v, p, t)
    /\ calls' = 1
    /\ prev' = None
    /\ UNCHANGED errorVars

\* The same call made again with the same root and path.
Again ==
    /\ pc = "done"
    /\ calls < MaxCalls
    /\ Enter(value, path, ty)
    /\ calls' = calls + 1
    /\ prev' = result
    /\ UNCHANGED errorVars

\* One round of try_fold: pull the next segment, apply the closure.
Fold ==
    /\ pc = "fold"
    /\ LET nx == SplitNext(iter)
       IN  /\ iter' = nx[2]
           /\ IF IsSome(nx[1])
              THEN LET c == FoldStep(acc, nx[1][2])
                   IN  /\ pulled' = pulled + 1
                       /\ IF c[1] = "Continue"
                          THEN acc' = c[2] /\ cf' = cf /\ pc' = "fold"
                          ELSE acc' = acc /\ cf' = c /\ pc' = "match"
              ELSE /\ cf' = Continue(acc)
                   /\ pc' = "match"
                   /\ UNCHANGED <<acc, pulled>>
    /\ UNCHANGED <<value, path, ty, result, tried, calls, prev>>
    /\ UNCHANGED errorVars

\* match cf { Continue(value) => Ok(value), Break(_) => Err(..) }
Match ==
    /\ pc = "match"
    /\ result' = MatchCf(cf, value, path)
    /\ pc' = AfterResolve(ty)
    /\ UNCHANGED <<value, path, ty, iter, acc, cf, pulled, tried, calls, prev>>
    /\ UNCHANGED errorVars

\* let v = get_value_by_path(value, path)?;
Question ==
    /\ pc = "question"
    /\ pc' = AfterQuestion(result)
    /\ UNCHANGED <<value, path, ty, iter, acc, cf, result, pulled, tried, calls, prev>>
    /\ UNCHANGED errorVars

\* T::try_from(v)
Convert ==
    /\ pc = "try_from"
    /\ result' = TryFrom(ty, result[2])
    /\ tried' = tried + 1
    /\ pc' = "done"
    /\ UNCHANGED <<value, path, ty, iter, acc, cf, pulled, calls, prev>>
    /\ UNCHANGED errorVars

Next ==
    \/ Call
    \/ Fold
    \/ Match
    \/ Question
    \/ Convert
    \/ Again

Spec == Init /\ [][Next]_vars

(***************************************************************************)
(* The state machine of a Pipeline error in the hands of a caller.         *)
(***************************************************************************)
ErrNew ==
    /\ err = None
    /\ \E m \in Msgs : err' = Some(New(m))
    /\ UNCHANGED <<log, shown>>
    /\ UNCHANGED resolverVars

ErrNewDebug ==
    /\ err = None
    /\ \E m \in Msgs, d \in Dbgs : err' = Some(NewDebug(m, d))
    /\ UNCHANGED <<log, shown>>
    /\ UNCHANGED resolverVars

PrintVerbose ==
    /\ IsSome(err)
    /\ Len(log) + 2 <= MaxLog
    /\ log' = log \o PrintVerboseOut(err[2])
    /\ UNCHANGED <<err, shown>>
    /\ UNCHANGED resolverVars

Display ==
    /\ IsSome(err)
    /\ shown' = Some(DisplayFmt(err[2]))
    /\ UNCHANGED <<err, log>>
    /\ UNCHANGED resolverVars

\* The error is dropped; the caller may go on to build another.
Drop ==
    /\ IsSome(err)
    /\ err' = None
    /\ shown' = None
    /\ UNCHANGED log
    /\ UNCHANGED resolverVars

NextError ==
    \/ ErrNew
    \/ ErrNewDebug
    \/ PrintVerbose
    \/ Display
    \/ Drop

SpecError == Init /\ [][NextError]_vars


(***************************************************************************)
(* Vocabulary of the properties.                                           *)
(***************************************************************************)
\* get_value_by_path has just returned `result` to its caller.
Returned == pc = "question" \/ (pc = "done" /\ ty = "Value")

\* get_typed_value_by_path has returned `result`.
TypedReturned == pc = "done" /\ ty \in Types

\* The value the traversal ended on, when it succeeded.
Resolved == cf[2]

\* An empty path, or one with a leading, trailing or doubled dot.
Malformed(p) ==
    \/ p = <<>>
    \/ p[1] = "."
    \/ p[Len(p)] = "."
    \/ \E i \in 1..(Len(p) - 1) : p[i] = "." /\ p[i + 1] = "."

\* The dot-separated segments of a path.
RECURSIVE SegmentsOf(_)
SegmentsOf(p) ==
    IF \A i \in 1..Len(p) : p[i] # "." THEN <<p>>
    ELSE LET d == CHOOSE i \in 1..Len(p) :
                     p[i] = "." /\ \A j \in 1..(i - 1) : p[j] # "."
         IN  <<SubSeq(p, 1, d - 1)>> \o SegmentsOf(SubSeq(p, d + 1, Len(p)))

HasKey(v, k) == Variant(v) = "Mapping" /\ String(k) \in DOMAIN v[2]

\* root[k1][k2]...[kn], or None when some ki is not a key of the Mapping reached.
RECURSIVE Descend(_, _)
Descend(v, segs) ==
    IF segs = <<>> THEN Some(v)
    ELSE IF HasKey(v, Head(segs))
         THEN Descend(v[2][String(Head(segs))], Tail(segs))
         ELSE None

\* The 1-based index of the first segment that cannot be resolved
\* (the node reached is no Mapping, or the segment is no key of it); 0 if none.
RECURSIVE FailAt(_, _, _)
FailAt(v, segs, i) ==
    IF segs = <<>> THEN 0
    ELSE IF HasKey(v, Head(segs))
         THEN FailAt(v[2][String(Head(segs))], Tail(segs), i + 1)
         ELSE i

\* The variant of a value as the data model names it, and the variant a
\* requested type stands for.
VariantOf(v) ==
    IF Variant(v) = "Number"
    THEN CASE v[2][1] = "PosInt" -> "Unsigned"
           [] v[2][1] = "NegInt" -> "Signed"
           [] OTHER -> "Float"
    ELSE Variant(v)

TypeVariant(T) ==
    CASE T = "bool" -> "Bool"
      [] T = "i64" -> "Signed"
      [] T = "u64" -> "Unsigned"
      [] T = "f64" -> "Float"
      [] T = "str" -> "String"
      [] T = "Mapping" -> "Mapping"
      [] T = "Sequence" -> "Sequence"

Payload(v) == IF Variant(v) = "Number" THEN v[2][2] ELSE v[2]

Label(T) ==
    CASE T = "bool" -> "$bool"
      [] T = "i64" -> "$i64"
      [] T = "u64" -> "$u64"
      [] T = "f64" -> "$f64"
      [] T = "str" -> "str"
      [] T = "Mapping" -> "Mapping"
      [] T = "Sequence" -> "Sequence"

(***************************************************************************)
(* C1. An empty path, or a path with a leading, trailing or doubled dot,   *)
(* makes get_value_by_path return Err, whatever the root (a Mapping with   *)
(* an empty-string key included).                                          *)
(***************************************************************************)
C1_MalformedPathFails ==
    (Returned /\ Malformed(path)) => IsErr(result)

(***************************************************************************)
(* C3. A path of n >= 1 non-empty segments, each a key of the Mapping      *)
(* reached so far, makes get_value_by_path return Ok(root[k1]...[kn]).     *)
(***************************************************************************)
C3_ExistingPathResolves ==
    (/\ Returned
     /\ ~Malformed(path)
     /\ IsSome(Descend(value, SegmentsOf(path))))
    => result = Ok(Descend(value, SegmentsOf(path))[2])

C3_Witness ==
    /\ Returned
    /\ ~Malformed(path)
    /\ Len(SegmentsOf(path)) = 3
    /\ IsSome(Descend(value, SegmentsOf(path)))
    /\ result = Ok(PosInt(U22))

(***************************************************************************)
(* C4. If at some segment the node reached is no Mapping (the root         *)
(* included) or the segment is no key of it, get_value_by_path returns Err *)
(* and has taken no segment beyond that one from the path; a Sequence      *)
(* reached mid-path fails even when the next segment is a valid index.     *)
(***************************************************************************)
C4_HaltsAtFirstFailure ==
    (Returned /\ FailAt(value, SegmentsOf(path), 1) > 0)
    => /\ IsErr(result)
       /\ pulled = FailAt(value, SegmentsOf(path), 1)

C4_Witness ==
    /\ Returned
    /\ path = <<"a", ".", "0", ".", "a">>
    /\ Variant(acc) = "Sequence"
    /\ Len(acc[2]) > 0
    /\ pulled = 2
    /\ iter.rem = <<"a">>
    /\ IsErr(result)


(***************************************************************************)
(* C2 as stated. Whenever the variant of the value differs from the one    *)
(* the requested type stands for, parse returns None and                   *)
(* get_typed_value_by_path returns Err: no Integer as f64, no Float as     *)
(* i64/u64, no unsigned Integer as i64, no signed Integer as u64, no       *)
(* non-Bool as bool.                                                       *)
(***************************************************************************)
C2_NoCrossVariant ==
    /\ (pc = "try_from" /\ TypeVariant(ty) # VariantOf(result[2]))
       => Parse(ty, result[2]) = None
    /\ (TypedReturned /\ tried = 1 /\ TypeVariant(ty) # VariantOf(Resolved))
       => IsErr(result)

(***************************************************************************)
(* C2 as amended. Whenever the variant of the value differs from the one   *)
(* the requested type stands for, parse returns None and                   *)
(* get_typed_value_by_path returns Err, except in two cases where they     *)
(* return Some and Ok: i64 requested of an unsigned Integer not above      *)
(* i64::MAX, and f64 requested of any Integer.                             *)
(***************************************************************************)
Widens(T, v) ==
    \/ T = "i64" /\ VariantOf(v) = "Unsigned" /\ Payload(v)[1] < HalfLimb
    \/ T = "f64" /\ VariantOf(v) \in {"Unsigned", "Signed"}

C2_NoCrossVariantButWidening ==
    /\ (pc = "try_from" /\ TypeVariant(ty) # VariantOf(result[2]))
       => (IsSome(Parse(ty, result[2])) <=> Widens(ty, result[2]))
    /\ (TypedReturned /\ tried = 1 /\ TypeVariant(ty) # VariantOf(Resolved))
       => (IsOk(result) <=> Widens(ty, Resolved))

C2_Witness ==
    /\ TypedReturned
    /\ tried = 1
    /\ ty = "i64"
    /\ Resolved = PosInt(UBig)
    /\ IsErr(result)

C6_ResolveBeforeConvert ==
    /\ (TypedReturned /\ (Malformed(path) \/ Descend(value, SegmentsOf(path)) = None))
       => (result = Err(PathError(value, path)) /\ tried = 0)
    /\ (pc = "try_from" \/ tried > 0)
       => (cf[1] = "Continue" /\ iter.finished)

(***************************************************************************)
(* C7 as stated. When parse returns None, the error has the short message  *)
(* "Could not parse requested value as {type_name}" and the debug          *)
(* rendering of the value as its diagnostic.                               *)
(***************************************************************************)
C7_ParseErrorText ==
    (TypedReturned /\ tried = 1 /\ Parse(ty, Resolved) = None)
    => result = Err([error_string |-> "Could not parse requested value as " \o Label(ty),
                     debug_string |-> Some(DebugFmt(Resolved))])

(***************************************************************************)
(* C7 as amended. When parse returns None, the error has the short message *)
(* "Could not parse requested yaml value as {type_name}" ($ before the     *)
(* copied types, none before str, Mapping, Sequence) and the diagnostic    *)
(* "Input object: " followed by the debug rendering of the value.          *)
(***************************************************************************)
C7_ParseErrorYamlText ==
    (TypedReturned /\ tried = 1 /\ Parse(ty, Resolved) = None)
    => result = Err([error_string |-> "Could not parse requested yaml value as " \o Label(ty),
                     debug_string |-> Some("Input object: " \o DebugFmt(Resolved))])

C7_Witness ==
    /\ TypedReturned
    /\ tried = 1
    /\ ty = "i64"
    /\ Resolved = Float(F1p5)
    /\ IsErr(result)
    /\ result[2].error_string = "Could not parse requested yaml value as $i64"

(***************************************************************************)
(* C8 as stated. Whenever get_value_by_path fails, the short message is    *)
(* "Path `{path}` was not found within the input object" with the whole    *)
(* path, and the diagnostic is the debug rendering of the root.            *)
(***************************************************************************)
C8_PathErrorText ==
    (Returned /\ IsErr(result))
    => result[2] = [error_string |-> "Path " \o Grave \o Text(path) \o Grave
                                       \o " was not found within the input object",
                    debug_string |-> Some(DebugFmt(value))]

(***************************************************************************)
(* C8 as amended. Whenever get_value_by_path fails, the short message is   *)
(* "Path `{path}` was not found within the input object" with the whole    *)
(* path, and the diagnostic is "Input object: " followed by the debug      *)
(* rendering of the root (not of the node the traversal stopped at).       *)
(***************************************************************************)
C8_PathErrorTextOfRoot ==
    (Returned /\ IsErr(result))
    => result[2] = [error_string |-> "Path " \o Grave \o Text(path) \o Grave
                                       \o " was not found within the input object",
                    debug_string |-> Some("Input object: " \o DebugFmt(value))]

C8_Witness ==
    /\ Returned
    /\ IsErr(result)
    /\ pulled = 3
    /\ acc # value
    /\ result[2].debug_string = Some("Input object: " \o DebugFmt(value))

C10_DisplayAndPrintVerbose ==
    /\ [](IsSome(shown) => (IsSome(err) /\ shown[2] = err[2].error_string))
    /\ [][log' # log =>
            /\ IsSome(err)
            /\ err' = err
            /\ LET e == err[2]
                   added == SubSeq(log', Len(log) + 1, Len(log'))
               IN  /\ SubSeq(log', 1, Len(log)) = log
                   /\ added[1] = [level |-> "error", text |-> e.error_string]
                   /\ IF e.debug_string = None
                      THEN Len(added) = 1
                      ELSE /\ Len(added) = 2
                           /\ added[2] = [level |-> "debug", text |-> e.debug_string[2]]
         ]_vars

C10_Witness ==
    /\ err = Some(New("m1"))
    /\ log = <<[level |-> "error", text |-> "m1"]>>
    /\ shown = Some("m1")

====
